---- MODULE Spec2Model ----
(***************************************************************************)
(* radon/metrics.py: the Halstead metrics (h_visit_ast), the parameters of *)
(* the Maintainability Index (mi_parameters) and the index itself          *)
(* (compute_mi, mi_visit).                                                 *)
(*                                                                         *)
(* Python ints are integers.  A Python float x is the integer              *)
(* floor(x * SCALE) (fixed point); every float operation rounds down to a  *)
(* multiple of 1/SCALE, so every operation is monotone as IEEE rounding    *)
(* is.  A call that raises is a result whose status is the exception's     *)
(* name; logs lists, in evaluation order, the arguments math.log was       *)
(* called with.                                                            *)
(***************************************************************************)
EXTENDS Integers, Sequences, FiniteSets

\* ------------------------------------------------------------- bounds

\* Resolution of the fixed-point floats: 1/SCALE.
SCALE == 1000
\* Largest number of distinct operators (operands) the visitor reports.
MaxDistinct == 3
\* Largest total number of operators (operands) the visitor reports.
MaxTotal == 4
\* Largest line count (sloc, lloc, comments, multi) the raw analysis reports.
MaxLines == 2
\* compute_mi called directly: volumes up to 10^MaxVolumeExp,
\* sloc up to 12^MaxSlocExp, complexity up to 6^MaxComplexityExp,
\* comment percentages 0, 15, ..., 15 * MaxCommentSteps.
MaxVolumeExp == 3
MaxSlocExp == 3
MaxComplexityExp == 3
MaxCommentSteps == 6

\* ------------------------------------------------- float arithmetic

\* float(n) of an int n
ToFloat(n) == n * SCALE

\* p / float(q) of two ints, q > 0
Ratio(p, q) == (p * SCALE) \div q

\* x * y of two floats
FMul(x, y) == (x * y) \div SCALE

\* x / n. of a float by a whole number n > 0
FDivInt(x, n) == x \div n

\* h ** N of two ints >= 0; 0 ** 0 is 1 in Python
RECURSIVE Pow(_, _)
Pow(b, e) == IF e = 0 THEN 1 ELSE b * Pow(b, e - 1)

\* The 10 fraction bits of log2(m / 1024) for 1024 <= m < 2048, by repeated
\* squaring: the bit is 1 exactly when the square reaches 2.
RECURSIVE Log2Frac(_, _)
Log2Frac(m, bits) ==
    IF bits = 0 THEN 0
    ELSE LET sq == (m * m) \div 1024
         IN  IF sq >= 2048
             THEN Pow(2, bits - 1) + Log2Frac(sq \div 2, bits - 1)
             ELSE Log2Frac(sq, bits - 1)

\* log2(num / den) as a float, for num > 0 and den > 0.
RECURSIVE Log2Q(_, _)
Log2Q(num, den) ==
    IF num >= 2 * den
    THEN SCALE + (IF num >= 524288 THEN Log2Q(num \div 2, den)
                                   ELSE Log2Q(num, 2 * den))
    ELSE IF num < den
    THEN Log2Q(2 * num, den) - SCALE
    ELSE (Log2Frac((num * 1024) \div den, 10) * SCALE) \div 1024

\* ln(2) as a float
LN2 == (6931 * SCALE) \div 10000

\* The quarter wave: sin(t) for a float 0 <= t <= pi/2, by its Taylor
\* polynomial of degree 7.
SinQuarter(t) ==
    LET t2 == (t * t) \div SCALE
        t3 == (t2 * t) \div SCALE
        t5 == (t3 * t2) \div SCALE
        t7 == (t5 * t2) \div SCALE
    IN  t - (t3 \div 6) + (t5 \div 120) - (t7 \div 5040)

\* math.sin(x) of a float x >= 0 (radians): reduce modulo 2*pi at ten
\* times the resolution, then fold onto the quarter wave.
math_sin(x) ==
    LET twoPi10 == (62832 * SCALE) \div 1000
        r       == ((x * 10) % twoPi10) \div 10
        pi      == twoPi10 \div 20
        halfPi  == twoPi10 \div 40
    IN  IF r <= halfPi THEN SinQuarter(r)
        ELSE IF r <= pi THEN SinQuarter(pi - r)
        ELSE IF r <= pi + halfPi THEN 0 - SinQuarter(r - pi)
        ELSE 0 - SinQuarter((2 * pi) - r)

\* floor(sqrt(n)) of an int n >= 0, by bisection on lo <= sqrt(n) < hi
RECURSIVE ISqrt(_, _, _)
ISqrt(n, lo, hi) ==
    IF hi - lo <= 1 THEN lo
    ELSE LET mid == (lo + hi) \div 2
         IN  IF mid * mid <= n THEN ISqrt(n, mid, hi) ELSE ISqrt(n, lo, mid)

\* ------------------------------------------------------ math calls

\* The result of evaluating an expression: the exception it raised (or
\* "ok"), its value (0 when it raised) and the arguments of the math.log
\* calls it made.
Returns(v, logs) == [status |-> "ok", value |-> v, logs |-> logs]
Raises(e, logs) == [status |-> e, value |-> 0, logs |-> logs]

\* math.log(x) of a float x: ValueError (math domain error) unless x > 0
math_log(x) ==
    IF x > 0 THEN Returns(FMul(Log2Q(x, SCALE), LN2), <<x>>)
    ELSE Raises("ValueError", <<x>>)

\* math.log(n, 2) of an int n: ValueError (math domain error) unless n > 0
math_log2(n) ==
    IF n > 0 THEN Returns(Log2Q(n, 1), <<n>>)
    ELSE Raises("ValueError", <<n>>)

\* math.sqrt(x) of a float x: ValueError (math domain error) if x < 0
math_sqrt(x) ==
    IF x >= 0 THEN Returns(ISqrt(x * SCALE, 0, 46341), << >>)
    ELSE Raises("ValueError", << >>)

\* ------------------------------------------------------- compute_mi

\* max without the floor: the second argument as it is
max_unfloored(a, b) == b

\* max(a, b) of two numbers
max(a, b) == IF b > a THEN b ELSE a

\* sloc_scale without its guard
sloc_scale_unguarded(sloc) == math_log(sloc)

\* sloc_scale = math.log(sloc) if sloc > 0 else 0
sloc_scale(sloc) == IF sloc > 0 THEN math_log(sloc) ELSE Returns(0, << >>)

\* volume_scale = math.log(halstead_volume) if halstead_volume > 0 else 0
volume_scale(halstead_volume) ==
    IF halstead_volume > 0 THEN math_log(halstead_volume)
    ELSE Returns(0, << >>)

\* comments_scale = math.sqrt(2.46 * comments) if comments != 0 else 0
comments_scale(comments) ==
    IF comments # 0 THEN math_sqrt((246 * comments) \div 100)
    ELSE Returns(0, << >>)

\* mi_raw with the complexity term added instead of subtracted
mi_raw_complexity_added(vscale, complexity, sscale, comments) ==
    ToFloat(171) - FMul((52 * SCALE) \div 10, vscale)
                 + FMul((23 * SCALE) \div 100, complexity)
                 - FMul((162 * SCALE) \div 10, sscale)
                 + (50 * math_sin(comments))

\* 171 - 5.2 * volume_scale - .23 * complexity - 16.2 * sloc_scale
\*     + 50 * math.sin(comments)
mi_raw(vscale, complexity, sscale, comments) ==
    ToFloat(171) - FMul((52 * SCALE) \div 10, vscale)
                 - FMul((23 * SCALE) \div 100, complexity)
                 - FMul((162 * SCALE) \div 10, sscale)
                 + (50 * math_sin(comments))

\* compute_mi(halstead_volume, complexity, sloc, comments), all four floats
compute_mi(halstead_volume, complexity, sloc, comments) ==
    LET s == sloc_scale(sloc)
        v == volume_scale(halstead_volume)
        c == comments_scale(comments)
    IN  IF s.status # "ok" THEN Raises(s.status, s.logs)
        ELSE IF v.status # "ok" THEN Raises(v.status, s.logs \o v.logs)
        ELSE IF c.status # "ok" THEN Raises(c.status, s.logs \o v.logs)
        ELSE Returns(max(0, FDivInt(mi_raw(v.value, complexity, s.value,
                                           comments) * 100, 171)),
                     s.logs \o v.logs)

\* ------------------------------------------------------ h_visit_ast

\* Halstead with vocabulary and length in each other's place
Halstead_swapped(h1, h2, N1, N2, vocabulary, length, calculated_length, volume, difficulty, effort, time, bugs) ==
    [h1 |-> h1, h2 |-> h2, N1 |-> N1, N2 |-> N2, vocabulary |-> length,
     length |-> vocabulary, calculated_length |-> calculated_length,
     volume |-> volume, difficulty |-> difficulty, effort |-> effort,
     time |-> time, bugs |-> bugs]

\* The namedtuple Halstead
Halstead(h1, h2, N1, N2, vocabulary, length, calculated_length, volume, difficulty, effort, time, bugs) ==
    [h1 |-> h1, h2 |-> h2, N1 |-> N1, N2 |-> N2, vocabulary |-> vocabulary,
     length |-> length, calculated_length |-> calculated_length,
     volume |-> volume, difficulty |-> difficulty, effort |-> effort,
     time |-> time, bugs |-> bugs]

\* volume = math.log(h ** N, 2)
h_volume(h, N) == math_log2(Pow(h, N))

\* difficulty as the docstring writes it, h1 / 2 * N2 / h2, the first
\* division one of ints
h_difficulty_int_half(h1, h2, N2) ==
    IF h2 # 0 THEN Ratio((h1 \div 2) * N2, h2) ELSE 0

\* difficulty = (h1 * N2) / float(2 * h2) if h2 != 0 else 0
h_difficulty(h1, h2, N2) == IF h2 # 0 THEN Ratio(h1 * N2, 2 * h2) ELSE 0

\* effort = difficulty * volume
h_effort(difficulty, volume) == FMul(difficulty, volume)

\* h1 * math.log(h1, 2) + h2 * math.log(h2, 2), left to right
h_calculated_length(h1, h2) ==
    LET l1 == math_log2(h1)
        l2 == math_log2(h2)
    IN  IF l1.status # "ok" THEN l1
        ELSE IF l2.status # "ok" THEN Raises(l2.status, l1.logs \o l2.logs)
        ELSE Returns((h1 * l1.value) + (h2 * l2.value), l1.logs \o l2.logs)

\* effort / 18.
h_time(effort) == FDivInt(effort, 18)

\* volume / 3000.
h_bugs(volume) == FDivInt(volume, 3000)

\* h_visit_ast(ast_node), given the counts of HalsteadVisitor.from_ast
h_visit_ast(visitor) ==
    LET h1 == visitor.distinct_operators
        h2 == visitor.distinct_operands
        N1 == visitor.operators
        N2 == visitor.operands
        h  == h1 + h2
        N  == N1 + N2
        volume == h_volume(h, N)
        difficulty == h_difficulty(h1, h2, N2)
        effort == h_effort(difficulty, volume.value)
        clen == h_calculated_length(h1, h2)
    IN  IF volume.status # "ok" THEN volume
        ELSE IF clen.status # "ok"
        THEN Raises(clen.status, volume.logs \o clen.logs)
        ELSE Returns(Halstead(h1, h2, N1, N2, h, N, clen.value, volume.value,
                              difficulty, effort, h_time(effort),
                              h_bugs(volume.value)),
                     volume.logs \o clen.logs)

\* ---------------------------------------------------- mi_parameters

\* comments = raw.comments / float(raw.sloc) * 100
comments_percent(raw) ==
    IF raw.sloc = 0 THEN Raises("ZeroDivisionError", << >>)
    ELSE Returns(Ratio(raw.comments, raw.sloc) * 100, << >>)

\* mi_parameters(code, count_multi).  code holds what the collaborators
\* report of it: visitor (HalsteadVisitor.from_ast), complexity
\* (average_complexity(cc_visit_ast(ast_node))) and raw (analyze(code)).
mi_parameters(code, count_multi) ==
    LET raw == code.raw
        comments_lines == raw.comments + (IF count_multi THEN raw.multi ELSE 0)
        comments == comments_percent(raw)
        halstead == h_visit_ast(code.visitor)
    IN  IF comments.status # "ok" THEN comments
        ELSE IF halstead.status # "ok"
        THEN Raises(halstead.status, halstead.logs)
        ELSE Returns(<<halstead.value.volume, code.complexity, raw.lloc,
                       comments.value>>, halstead.logs)

\* mi_visit(code, multi) = compute_mi(*mi_parameters(code, multi))
mi_visit(code, multi) ==
    LET p == mi_parameters(code, multi)
        m == compute_mi(p.value[1], p.value[2], ToFloat(p.value[3]),
                        p.value[4])
    IN  IF p.status # "ok" THEN p
        ELSE IF m.status # "ok" THEN Raises(m.status, p.logs \o m.logs)
        ELSE Returns(m.value, p.logs \o m.logs)

\* ------------------------------------------------------- the inputs

\* What HalsteadVisitor.from_ast can report: the distinct operators
\* (operands) are the different ones among all of them, so there are at
\* most as many, and none exactly when there is none at all.
Visitors ==
    {v \in [distinct_operators : 0..MaxDistinct,
            distinct_operands : 0..MaxDistinct,
            operators : 0..MaxTotal, operands : 0..MaxTotal] :
        /\ v.distinct_operators <= v.operators
        /\ v.distinct_operands <= v.operands
        /\ (v.distinct_operators = 0) <=> (v.operators = 0)
        /\ (v.distinct_operands = 0) <=> (v.operands = 0)}

\* What analyze(code) can report: four line counts.
Raws == [sloc : 0..MaxLines, lloc : 0..MaxLines, comments : 0..MaxLines,
         multi : 0..MaxLines]

\* What average_complexity(cc_visit_ast(ast_node)) can report: 1 and 2.5.
AvgComplexities == {ToFloat(1), ToFloat(5) \div 2}

\* A source text, as far as the metrics depend on it.
Codes == [visitor : Visitors, complexity : AvgComplexities, raw : Raws]

\* The arguments of a direct call of compute_mi.
Volumes ==
    {0 - SCALE, 0, SCALE \div 2} \cup {ToFloat(Pow(10, k)) : k \in 0..MaxVolumeExp}
Slocs == {ToFloat(n) : n \in {-1, 0} \cup {Pow(12, k) : k \in 0..MaxSlocExp}}
Complexities ==
    {0, (3 * SCALE) \div 2} \cup {ToFloat(Pow(6, k)) : k \in 0..MaxComplexityExp}
Comments == {ToFloat(15 * k) : k \in 0..MaxCommentSteps}

\* -------------------------------------------------------- the calls

\* One call of one function of the module: the function ("none" before the
\* call), its arguments, and what it did.  The functions keep no state, so
\* a call depends on nothing that came before it.
VARIABLES fn, args, result

vars == <<fn, args, result>>

Init ==
    /\ fn = "none"
    /\ args = << >>
    /\ result = Returns(0, << >>)

HVisitAst ==
    /\ fn = "none"
    /\ \E visitor \in Visitors :
        /\ fn' = "h_visit_ast"
        /\ args' = visitor
        /\ result' = h_visit_ast(visitor)

MiParameters ==
    /\ fn = "none"
    /\ \E code \in Codes, count_multi \in BOOLEAN :
        /\ fn' = "mi_parameters"
        /\ args' = [code |-> code, count_multi |-> count_multi]
        /\ result' = mi_parameters(code, count_multi)

ComputeMi ==
    /\ fn = "none"
    /\ \E halstead_volume \in Volumes, complexity \in Complexities,
       sloc \in Slocs, comments \in Comments :
        /\ fn' = "compute_mi"
        /\ args' = [halstead_volume |-> halstead_volume,
                    complexity |-> complexity, sloc |-> sloc,
                    comments |-> comments]
        /\ result' = compute_mi(halstead_volume, complexity, sloc, comments)

MiVisit ==
    /\ fn = "none"
    /\ \E code \in Codes, multi \in BOOLEAN :
        /\ fn' = "mi_visit"
        /\ args' = [code |-> code, count_multi |-> multi]
        /\ result' = mi_visit(code, multi)

Next == HVisitAst \/ MiParameters \/ ComputeMi \/ MiVisit

Spec == Init /\ [][Next]_vars

\* One call of h_visit_ast on any counts the visitor can report.
SpecHalstead == Init /\ [][HVisitAst]_vars

\* One direct call of compute_mi.
SpecMI == Init /\ [][ComputeMi]_vars

\* ------------------------------------------------------- the claims

\* Every argument math.log was called with is positive.
LogsPositive == \A i \in DOMAIN result.logs : result.logs[i] > 0

\* C1: for all counts the visitor can report, zero counts included,
\* h_visit_ast returns a Halstead record without raising and calls math.log
\* on positive numbers only.
C1_HalsteadNeverRaises ==
    fn = "h_visit_ast" => result.status = "ok" /\ LogsPositive

\* C2: when the line count that comments are divided by is zero (a source
\* without a line of code, logical or not), mi_parameters divides by no
\* zero, and the comment percentage it returns is 0.  (A ValueError of
\* h_visit_ast is not held against it here.)
C2_NoLinesNoDivision ==
    (fn = "mi_parameters" /\ args.code.raw.sloc = 0 /\ args.code.raw.lloc = 0)
        => (result.status # "ZeroDivisionError"
            /\ (result.status = "ok" => result.value[4] = 0))

\* The comment count C3 describes: the comment lines, and the lines of
\* multi-line strings as well when count_multi is true.
CommentCount(raw, count_multi) ==
    raw.comments + (IF count_multi THEN raw.multi ELSE 0)

\* C3: the comment percentage mi_parameters returns is
\* comment_count / lloc * 100, lloc being its third result, and with
\* multi-line string lines present the two values of count_multi give
\* different percentages.
C3_CommentPercentage ==
    (fn = "mi_parameters" /\ result.status = "ok" /\ args.code.raw.lloc > 0)
        => LET raw == args.code.raw
               other == mi_parameters(args.code, ~args.count_multi)
           IN  /\ result.value[3] = raw.lloc
               /\ result.value[4] =
                      Ratio(CommentCount(raw, args.count_multi), raw.lloc) * 100
               /\ raw.multi > 0 => other.value[4] # result.value[4]

\* C4: with no operator and no operand at all, h_visit_ast returns a
\* record whose volume, difficulty, effort, time and bugs are 0.
C4_AllZero ==
    (fn = "h_visit_ast" /\ args.distinct_operators = 0
                        /\ args.distinct_operands = 0)
        => /\ result.status = "ok"
           /\ result.value.volume = 0
           /\ result.value.difficulty = 0
           /\ result.value.effort = 0
           /\ result.value.time = 0
           /\ result.value.bugs = 0

\* C5: with operators and no operand, h_visit_ast returns a record whose
\* difficulty is 0, whose volume is the one of h = h1 and N = N1, and
\* whose effort and time are 0.
C5_NoOperands ==
    (fn = "h_visit_ast" /\ args.distinct_operands = 0
                        /\ args.distinct_operators > 0)
        => /\ result.status = "ok"
           /\ result.value.difficulty = 0
           /\ result.value.volume =
                  h_volume(args.distinct_operators, args.operators).value
           /\ result.value.effort = 0
           /\ result.value.time = 0

\* The index before the floor, (171 - ... + 50 * sin(comments)) * 100 / 171,
\* of the call's arguments.
Unfloored ==
    FDivInt(mi_raw(volume_scale(args.halstead_volume).value, args.complexity,
                   sloc_scale(args.sloc).value, args.comments) * 100, 171)

\* C6: compute_mi returns a value >= 0: the normalised index itself when
\* that is >= 0, however large, and 0 when it is negative.
C6_FlooredAtZero ==
    fn = "compute_mi"
        => /\ result.status = "ok"
           /\ result.value >= 0
           /\ Unfloored >= 0 => result.value = Unfloored
           /\ Unfloored < 0 => result.value = 0

\* C6 happens: a call whose index is negative before the floor and 0 after.
C6_Witness ==
    fn = "compute_mi" /\ Unfloored < 0 /\ result.value = 0

\* Of the arguments sloc and halstead_volume, in this order, the positive.
PositiveOf(sloc, volume) ==
    (IF sloc > 0 THEN <<sloc>> ELSE << >>)
        \o (IF volume > 0 THEN <<volume>> ELSE << >>)

\* C7: compute_mi calls math.log on positive arguments only: on sloc
\* exactly when sloc > 0 and on the volume exactly when it is > 0, each
\* whatever the other is; with sloc <= 0 the result is the one of sloc = 1
\* (whose logarithm is 0), with volume <= 0 the one of volume = 1, and the
\* call returns a number.
C7_LogGuards ==
    fn = "compute_mi"
        => /\ LogsPositive
           /\ result.logs = PositiveOf(args.sloc, args.halstead_volume)
           /\ (args.sloc <= 0 \/ args.halstead_volume <= 0)
                  => result.status = "ok"
           /\ args.sloc <= 0
                  => result.value = compute_mi(args.halstead_volume,
                         args.complexity, ToFloat(1), args.comments).value
           /\ args.halstead_volume <= 0
                  => result.value = compute_mi(ToFloat(1), args.complexity,
                         args.sloc, args.comments).value

\* C7 happens: sloc = 0 with a positive volume, whose logarithm alone is
\* taken.
C7_Witness ==
    /\ fn = "compute_mi"
    /\ args.sloc = 0
    /\ args.halstead_volume > 0
    /\ result.status = "ok"
    /\ result.logs = <<args.halstead_volume>>

\* C8: in the record h_visit_ast returns, vocabulary = h1 + h2,
\* length = N1 + N2, and h1, h2, N1, N2 are the visitor's four counts.
C8_VocabularyLength ==
    (fn = "h_visit_ast" /\ result.status = "ok")
        => /\ result.value.h1 = args.distinct_operators
           /\ result.value.h2 = args.distinct_operands
           /\ result.value.N1 = args.operators
           /\ result.value.N2 = args.operands
           /\ result.value.vocabulary = result.value.h1 + result.value.h2
           /\ result.value.length = result.value.N1 + result.value.N2

\* C8 happens: the record of h1 = 2, h2 = 1, N1 = 3, N2 = 1.
C8_Witness ==
    /\ fn = "h_visit_ast"
    /\ result.status = "ok"
    /\ args = [distinct_operators |-> 2, distinct_operands |-> 1,
               operators |-> 3, operands |-> 1]
    /\ result.value.vocabulary = 3
    /\ result.value.length = 4

\* The value of compute_mi with one argument of the call replaced.
WithComplexity(c) ==
    compute_mi(args.halstead_volume, c, args.sloc, args.comments).value
WithVolume(v) ==
    compute_mi(v, args.complexity, args.sloc, args.comments).value
WithSloc(s) ==
    compute_mi(args.halstead_volume, args.complexity, s, args.comments).value

\* C9: with the other arguments as they are, a complexity that is not
\* smaller, a volume whose volume_scale is not smaller and a sloc whose
\* sloc_scale is not smaller give an index that is not greater.
C9_Monotone ==
    fn = "compute_mi"
        => /\ \A c \in Complexities :
                  c >= args.complexity => WithComplexity(c) <= result.value
           /\ \A v \in Volumes :
                  volume_scale(v).value >= volume_scale(args.halstead_volume).value
                      => WithVolume(v) <= result.value
           /\ \A s \in Slocs :
                  sloc_scale(s).value >= sloc_scale(args.sloc).value
                      => WithSloc(s) <= result.value

\* C9 happens: a call for which a greater complexity, a greater
\* volume_scale and a greater sloc_scale each give a smaller index.
C9_Witness ==
    /\ fn = "compute_mi"
    /\ \E c \in Complexities :
           c > args.complexity /\ WithComplexity(c) < result.value
    /\ \E v \in Volumes :
           /\ volume_scale(v).value > volume_scale(args.halstead_volume).value
           /\ WithVolume(v) < result.value
    /\ \E s \in Slocs :
           /\ sloc_scale(s).value > sloc_scale(args.sloc).value
           /\ WithSloc(s) < result.value

\* C10: in the record h_visit_ast returns, difficulty is
\* (h1 * N2) / (2 * h2) when h2 # 0 and 0 otherwise, effort is
\* difficulty * volume, time is effort / 18 and bugs is volume / 3000.
C10_DerivedFields ==
    (fn = "h_visit_ast" /\ result.status = "ok")
        => LET r == result.value
           IN  /\ r.h2 # 0
                      => r.difficulty = (r.h1 * r.N2 * SCALE) \div (2 * r.h2)
               /\ r.h2 = 0 => r.difficulty = 0
               /\ r.effort = (r.difficulty * r.volume) \div SCALE
               /\ r.time = r.effort \div 18
               /\ r.bugs = r.volume \div 3000

\* C10 happens: the record of h1 = 2, h2 = 1, N1 = 3, N2 = 1, whose
\* difficulty is 1 and whose effort is its volume.
C10_Witness ==
    /\ fn = "h_visit_ast"
    /\ result.status = "ok"
    /\ result.value.h1 = 2 /\ result.value.h2 = 1
    /\ result.value.N1 = 3 /\ result.value.N2 = 1
    /\ result.value.difficulty = SCALE
    /\ result.value.effort = result.value.volume
    /\ result.value.time > 0
    /\ result.value.bugs > 0

====
